---- MODULE Spec2Model ----
(***************************************************************************)
(* EPF Annual Account Slip Generator (src/epf_calculator.py).              *)
(*                                                                         *)
(* The specifications share the variables below:                           *)
(*   Spec          one run of main(): prompt, load, six sheet lookups,     *)
(*                 validate_sheet_dimensions, fetch, rate entry,           *)
(*                 computation and the two output writes;                  *)
(*   SpecContrib   calculate_contributions applied to a wage;              *)
(*   SpecBalances  calculate_monthly_balances applied to a series;         *)
(*   SpecBalancesPair, SpecRows, SpecRowsPair, SpecFetch: further below.   *)
(***************************************************************************)
EXTENDS Integers, Sequences, FiniteSets, TLC

VARIABLES
    pc,           \* position in main(); "idle" when a function is checked alone
    response,     \* last answer typed at the start-up prompt
    sheets,       \* worksheets obtained so far, in lookup order
    verror,       \* what validate_sheet_dimensions raised (kind "none": nothing)
    exc,          \* class of the exception that ended the run, "" if none
    diag,         \* diagnostic prefix printed by the except clause
    data,         \* record counts of the six fetched tables, <<>> before the fetch
    rate,         \* interest rate read from the console, NoRate before the read
    rate_reads,   \* number of times the rate prompt was answered
    output_rows,  \* number of rows generate_output_rows returned, 0 before
    csv_file,     \* output.csv on disk
    xlsx_file,    \* Output.xlsx on disk
    result,       \* value returned by main(), "NONE" while running
    log,          \* stages of main() completed so far, in order
    call,         \* function applied in SpecContrib / SpecBalances
    args,         \* its arguments
    ret           \* its return value, NoRet before it returns

vars == <<pc, response, sheets, verror, exc, diag, data, rate, rate_reads,
          output_rows, csv_file, xlsx_file, result, log, call, args, ret>>

mainVars == <<pc, response, sheets, verror, exc, diag, data, rate, rate_reads,
              output_rows, csv_file, xlsx_file, result, log>>

fnVars == <<call, args, ret>>

(***************************************************************************)
(* Bounds of the model.                                                    *)
(***************************************************************************)
\* largest max_row a worksheet reports (header row included)
MaxRows == 2

(***************************************************************************)
(* Program constants.                                                      *)
(***************************************************************************)
INTEREST_DIVISOR == 1200
EXPECTED_WAGES_COLUMNS == 14
EXPECTED_WDL_COLUMNS == 12
EXPECTED_OB_COLUMNS == 1

\* the six sheet names, in the order main() looks them up and passes them on
SheetNames == <<"Wages", "OB_EE", "OB_ER", "OB_EPS", "WDL_EE", "WDL_ER">>

\* exception classes derived from EPFCalculatorError
EPFCalculatorError == {"FileLoadError", "SheetNotFoundError", "DataValidationError"}

NoError == [kind |-> "none", table |-> "", expected |-> 0, actual |-> 0]
NoRate == -1
NoRet == <<>>
NoArgs == [none |-> TRUE]

\* column counts a worksheet of the given name may report in the model:
\* the expected count and its neighbours (openpyxl never reports less than 1)
ColumnCounts(name) ==
    IF name = "Wages" THEN {13, 14, 15}
    ELSE IF name \in {"OB_EE", "OB_ER", "OB_EPS"} THEN {1, 2}
    ELSE {11, 12, 13}

\* interest rates typed at the console, in quarter percentage points:
\* 0, 8.25, 8.5 and 12 percent
RateQuarters == {0, 33, 34, 48}

(***************************************************************************)
(* validate_sheet_dimensions: the eleven checks in source order; the       *)
(* result is the DataValidationError raised, or NoError.                   *)
(***************************************************************************)
ColumnError(table, expected, sheet) ==
    [kind |-> "columns", table |-> table, expected |-> expected,
     actual |-> sheet.max_column]

RowError(table, wage_sheet_row_count, sheet) ==
    [kind |-> "rows", table |-> table, expected |-> wage_sheet_row_count,
     actual |-> sheet.max_row]

validate_sheet_dimensions_DropLastRowCheck(wage_sheet, ob_ee_sheet, ob_er_sheet, ob_eps_sheet, wdl_ee_sheet, wdl_er_sheet) ==
    LET wage_sheet_row_count == wage_sheet.max_row IN
    IF wage_sheet.max_column # EXPECTED_WAGES_COLUMNS
        THEN ColumnError("Wages", EXPECTED_WAGES_COLUMNS, wage_sheet)
    ELSE IF ob_ee_sheet.max_column # EXPECTED_OB_COLUMNS
        THEN ColumnError("OB_EE", EXPECTED_OB_COLUMNS, ob_ee_sheet)
    ELSE IF ob_er_sheet.max_column # EXPECTED_OB_COLUMNS
        THEN ColumnError("OB_ER", EXPECTED_OB_COLUMNS, ob_er_sheet)
    ELSE IF ob_eps_sheet.max_column # EXPECTED_OB_COLUMNS
        THEN ColumnError("OB_EPS", EXPECTED_OB_COLUMNS, ob_eps_sheet)
    ELSE IF wdl_ee_sheet.max_column # EXPECTED_WDL_COLUMNS
        THEN ColumnError("WDL_EE", EXPECTED_WDL_COLUMNS, wdl_ee_sheet)
    ELSE IF wdl_er_sheet.max_column # EXPECTED_WDL_COLUMNS
        THEN ColumnError("WDL_ER", EXPECTED_WDL_COLUMNS, wdl_er_sheet)
    ELSE IF wage_sheet_row_count # ob_ee_sheet.max_row
        THEN RowError("OB_EE", wage_sheet_row_count, ob_ee_sheet)
    ELSE IF wage_sheet_row_count # ob_er_sheet.max_row
        THEN RowError("OB_ER", wage_sheet_row_count, ob_er_sheet)
    ELSE IF wage_sheet_row_count # ob_eps_sheet.max_row
        THEN RowError("OB_EPS", wage_sheet_row_count, ob_eps_sheet)
    ELSE IF wage_sheet_row_count # wdl_ee_sheet.max_row
        THEN RowError("WDL_EE", wage_sheet_row_count, wdl_ee_sheet)
    ELSE NoError

validate_sheet_dimensions_RowsFirst(wage_sheet, ob_ee_sheet, ob_er_sheet, ob_eps_sheet, wdl_ee_sheet, wdl_er_sheet) ==
    LET wage_sheet_row_count == wage_sheet.max_row IN
    IF wage_sheet_row_count # ob_ee_sheet.max_row
        THEN RowError("OB_EE", wage_sheet_row_count, ob_ee_sheet)
    ELSE IF wage_sheet_row_count # ob_er_sheet.max_row
        THEN RowError("OB_ER", wage_sheet_row_count, ob_er_sheet)
    ELSE IF wage_sheet_row_count # ob_eps_sheet.max_row
        THEN RowError("OB_EPS", wage_sheet_row_count, ob_eps_sheet)
    ELSE IF wage_sheet_row_count # wdl_ee_sheet.max_row
        THEN RowError("WDL_EE", wage_sheet_row_count, wdl_ee_sheet)
    ELSE IF wage_sheet_row_count # wdl_er_sheet.max_row
        THEN RowError("WDL_ER", wage_sheet_row_count, wdl_er_sheet)
    ELSE IF wage_sheet.max_column # EXPECTED_WAGES_COLUMNS
        THEN ColumnError("Wages", EXPECTED_WAGES_COLUMNS, wage_sheet)
    ELSE IF ob_ee_sheet.max_column # EXPECTED_OB_COLUMNS
        THEN ColumnError("OB_EE", EXPECTED_OB_COLUMNS, ob_ee_sheet)
    ELSE IF ob_er_sheet.max_column # EXPECTED_OB_COLUMNS
        THEN ColumnError("OB_ER", EXPECTED_OB_COLUMNS, ob_er_sheet)
    ELSE IF ob_eps_sheet.max_column # EXPECTED_OB_COLUMNS
        THEN ColumnError("OB_EPS", EXPECTED_OB_COLUMNS, ob_eps_sheet)
    ELSE IF wdl_ee_sheet.max_column # EXPECTED_WDL_COLUMNS
        THEN ColumnError("WDL_EE", EXPECTED_WDL_COLUMNS, wdl_ee_sheet)
    ELSE IF wdl_er_sheet.max_column # EXPECTED_WDL_COLUMNS
        THEN ColumnError("WDL_ER", EXPECTED_WDL_COLUMNS, wdl_er_sheet)
    ELSE NoError

validate_sheet_dimensions(wage_sheet, ob_ee_sheet, ob_er_sheet, ob_eps_sheet, wdl_ee_sheet, wdl_er_sheet) ==
    LET wage_sheet_row_count == wage_sheet.max_row IN
    \* Column validation
    IF wage_sheet.max_column # EXPECTED_WAGES_COLUMNS
        THEN ColumnError("Wages", EXPECTED_WAGES_COLUMNS, wage_sheet)
    ELSE IF ob_ee_sheet.max_column # EXPECTED_OB_COLUMNS
        THEN ColumnError("OB_EE", EXPECTED_OB_COLUMNS, ob_ee_sheet)
    ELSE IF ob_er_sheet.max_column # EXPECTED_OB_COLUMNS
        THEN ColumnError("OB_ER", EXPECTED_OB_COLUMNS, ob_er_sheet)
    ELSE IF ob_eps_sheet.max_column # EXPECTED_OB_COLUMNS
        THEN ColumnError("OB_EPS", EXPECTED_OB_COLUMNS, ob_eps_sheet)
    ELSE IF wdl_ee_sheet.max_column # EXPECTED_WDL_COLUMNS
        THEN ColumnError("WDL_EE", EXPECTED_WDL_COLUMNS, wdl_ee_sheet)
    ELSE IF wdl_er_sheet.max_column # EXPECTED_WDL_COLUMNS
        THEN ColumnError("WDL_ER", EXPECTED_WDL_COLUMNS, wdl_er_sheet)
    \* Row validation
    ELSE IF wage_sheet_row_count # ob_ee_sheet.max_row
        THEN RowError("OB_EE", wage_sheet_row_count, ob_ee_sheet)
    ELSE IF wage_sheet_row_count # ob_er_sheet.max_row
        THEN RowError("OB_ER", wage_sheet_row_count, ob_er_sheet)
    ELSE IF wage_sheet_row_count # ob_eps_sheet.max_row
        THEN RowError("OB_EPS", wage_sheet_row_count, ob_eps_sheet)
    ELSE IF wage_sheet_row_count # wdl_ee_sheet.max_row
        THEN RowError("WDL_EE", wage_sheet_row_count, wdl_ee_sheet)
    ELSE IF wage_sheet_row_count # wdl_er_sheet.max_row
        THEN RowError("WDL_ER", wage_sheet_row_count, wdl_er_sheet)
    ELSE NoError

(***************************************************************************)
(* main(): one action per statement group of the try block.                *)
(***************************************************************************)
\* start_up_check accepts exactly these answers
ValidChoice(r) == r \in {"y", "Y", "n", "N"}

IsQuit_LowerCaseOnly(r) == r = "n"

\* main() returns "CLOSE" on these answers
IsQuit(r) == r \in {"n", "N"}

\* the except clauses of main(): any exception ends the run with "ERROR"
Raise(e) ==
    /\ exc' = e
    /\ diag' = IF e \in EPFCalculatorError THEN "ERROR" ELSE "UNEXPECTED ERROR"
    /\ result' = "ERROR"
    /\ pc' = "done"

Completed(stage) == log' = Append(log, stage)

MainInit ==
    /\ pc = "start_up_check"
    /\ response = ""
    /\ sheets = <<>>
    /\ verror = NoError
    /\ exc = ""
    /\ diag = ""
    /\ data = <<>>
    /\ rate = NoRate
    /\ rate_reads = 0
    /\ output_rows = 0
    /\ csv_file = "untouched"
    /\ xlsx_file = "untouched"
    /\ result = "NONE"
    /\ log = <<>>

FnIdle ==
    /\ call = "none"
    /\ args = NoArgs
    /\ ret = NoRet

Init == MainInit /\ FnIdle

\* start_up_check(): one answer at the prompt; an invalid one asks again
StartUpCheck ==
    /\ pc = "start_up_check"
    /\ \E r \in {"y", "Y", "n", "N", "q"} :
        /\ response' = r
        /\ IF ~ValidChoice(r)
             THEN UNCHANGED <<pc, result>>
           ELSE IF IsQuit(r)
             THEN pc' = "done" /\ result' = "CLOSE"
           ELSE pc' = "open" /\ UNCHANGED result
    /\ UNCHANGED <<sheets, verror, exc, diag, data, rate, rate_reads,
                   output_rows, csv_file, xlsx_file, log>>
    /\ UNCHANGED fnVars

\* open_input_excel_file(path)
OpenInputExcelFile ==
    /\ pc = "open"
    /\ \E outcome \in {"loaded", "not_found", "unreadable"} :
        IF outcome = "loaded"
          THEN /\ pc' = "get_sheet"
               /\ Completed("load")
               /\ UNCHANGED <<exc, diag, result>>
          ELSE /\ Raise("FileLoadError")
               /\ UNCHANGED log
    /\ UNCHANGED <<response, sheets, verror, data, rate, rate_reads,
                   output_rows, csv_file, xlsx_file>>
    /\ UNCHANGED fnVars

\* get_sheet(input_workbook, name) for the next of the six names
GetSheet ==
    /\ pc = "get_sheet"
    /\ LET name == SheetNames[Len(sheets) + 1] IN
       \E present \in BOOLEAN :
        IF present
          THEN \E c \in ColumnCounts(name), r \in 1..MaxRows :
               /\ sheets' = Append(sheets,
                      [name |-> name, max_column |-> c, max_row |-> r])
               /\ pc' = IF Len(sheets) + 1 = Len(SheetNames)
                          THEN "validate" ELSE "get_sheet"
               /\ Completed("sheet")
               /\ UNCHANGED <<exc, diag, result>>
          ELSE /\ Raise("SheetNotFoundError")
               /\ UNCHANGED <<sheets, log>>
    /\ UNCHANGED <<response, verror, data, rate, rate_reads,
                   output_rows, csv_file, xlsx_file>>
    /\ UNCHANGED fnVars

Validate_IgnoreFailure ==
    /\ pc = "validate"
    /\ verror' = validate_sheet_dimensions(sheets[1], sheets[2], sheets[3],
                                           sheets[4], sheets[5], sheets[6])
    /\ pc' = "fetch"
    /\ Completed("validate")
    /\ UNCHANGED <<exc, diag, result>>
    /\ UNCHANGED <<response, sheets, data, rate, rate_reads,
                   output_rows, csv_file, xlsx_file>>
    /\ UNCHANGED fnVars

\* validate_sheet_dimensions(...) as called by main()
Validate ==
    /\ pc = "validate"
    /\ LET e == validate_sheet_dimensions(sheets[1], sheets[2], sheets[3],
                                          sheets[4], sheets[5], sheets[6]) IN
        /\ verror' = e
        /\ IF e = NoError
             THEN /\ pc' = "fetch"
                  /\ Completed("validate")
                  /\ UNCHANGED <<exc, diag, result>>
             ELSE /\ Raise("DataValidationError")
                  /\ UNCHANGED log
    /\ UNCHANGED <<response, sheets, data, rate, rate_reads,
                   output_rows, csv_file, xlsx_file>>
    /\ UNCHANGED fnVars

\* the six fetch_sheet_data calls: each table yields max_row - 1 records
FetchData ==
    /\ pc = "fetch"
    /\ data' = [i \in 1..Len(sheets) |-> sheets[i].max_row - 1]
    /\ pc' = "rate"
    /\ Completed("fetch")
    /\ UNCHANGED <<response, sheets, verror, exc, diag, rate, rate_reads,
                   output_rows, csv_file, xlsx_file, result>>
    /\ UNCHANGED fnVars

\* rate = float(input(...)): text that is no number raises ValueError
ReadRate ==
    /\ pc = "rate"
    /\ rate_reads' = rate_reads + 1
    /\ \E numeric \in BOOLEAN :
        IF numeric
          THEN \E q \in RateQuarters :
               /\ rate' = q
               /\ pc' = "compute"
               /\ Completed("rate")
               /\ UNCHANGED <<exc, diag, result>>
          ELSE /\ Raise("ValueError")
               /\ UNCHANGED <<rate, log>>
    /\ UNCHANGED <<response, sheets, verror, data,
                   output_rows, csv_file, xlsx_file>>
    /\ UNCHANGED fnVars

\* generate_output_rows(...): header plus one row per wage record; a cell
\* that is no number makes the arithmetic raise
Compute ==
    /\ pc = "compute"
    /\ \E numeric \in BOOLEAN :
        IF numeric
          THEN /\ output_rows' = data[1] + 1
               /\ pc' = "write_csv"
               /\ Completed("compute")
               /\ UNCHANGED <<exc, diag, result>>
          ELSE /\ Raise("TypeError")
               /\ UNCHANGED <<output_rows, log>>
    /\ UNCHANGED <<response, sheets, verror, data, rate, rate_reads,
                   csv_file, xlsx_file>>
    /\ UNCHANGED fnVars

\* write_csv_output(output_rows): open(filename, "w") truncates the file,
\* then the rows are written one by one
WriteCsv ==
    /\ pc = "write_csv"
    /\ \E outcome \in {"written", "open_failed", "write_failed"} :
        CASE outcome = "written" ->
               /\ csv_file' = "complete"
               /\ pc' = "write_xlsx"
               /\ Completed("csv")
               /\ UNCHANGED <<exc, diag, result>>
          [] outcome = "open_failed" ->
               /\ Raise("OSError")
               /\ UNCHANGED <<csv_file, log>>
          [] outcome = "write_failed" ->
               /\ csv_file' = "partial"
               /\ Raise("OSError")
               /\ UNCHANGED log
    /\ UNCHANGED <<response, sheets, verror, data, rate, rate_reads,
                   output_rows, xlsx_file>>
    /\ UNCHANGED fnVars

\* write_excel_output(output_rows), input_workbook.close(), return "SUCCESS"
WriteExcel ==
    /\ pc = "write_xlsx"
    /\ \E outcome \in {"saved", "open_failed", "save_failed"} :
        CASE outcome = "saved" ->
               /\ xlsx_file' = "complete"
               /\ pc' = "done"
               /\ result' = "SUCCESS"
               /\ Completed("xlsx")
               /\ UNCHANGED <<exc, diag>>
          [] outcome = "open_failed" ->
               /\ Raise("OSError")
               /\ UNCHANGED <<xlsx_file, log>>
          [] outcome = "save_failed" ->
               /\ xlsx_file' = "partial"
               /\ Raise("OSError")
               /\ UNCHANGED log
    /\ UNCHANGED <<response, sheets, verror, data, rate, rate_reads,
                   output_rows, csv_file>>
    /\ UNCHANGED fnVars

Next ==
    \/ StartUpCheck
    \/ OpenInputExcelFile
    \/ GetSheet
    \/ Validate
    \/ FetchData
    \/ ReadRate
    \/ Compute
    \/ WriteCsv
    \/ WriteExcel

Spec == Init /\ [][Next]_vars

(***************************************************************************)
(* Properties of a run of main().                                          *)
(***************************************************************************)
\* validate_sheet_dimensions has returned or raised in this run
Validated ==
    /\ Len(sheets) = 6
    /\ pc \notin {"start_up_check", "open", "get_sheet", "validate"}

\* the dimensions the input contract asks for, stated on the six sheets
DimensionsMatch ==
    /\ sheets[1].max_column = 14
    /\ \A i \in {2, 3, 4} : sheets[i].max_column = 1
    /\ \A i \in {5, 6} : sheets[i].max_column = 12
    /\ \A i \in 2..6 : sheets[i].max_row = sheets[1].max_row

\* C1: validate_sheet_dimensions returns without raising if and only if
\* Wages has 14 columns, each OB sheet 1, each WDL sheet 12 and every other
\* sheet has the row count of Wages; otherwise it raises DataValidationError.
C1_AcceptsIffDimensionsMatch ==
    Validated =>
        /\ (verror = NoError) <=> DimensionsMatch
        /\ ~DimensionsMatch => exc = "DataValidationError" /\ verror.kind # "none"
        /\ DimensionsMatch => exc # "DataValidationError"

C1_Witness ==
    /\ Validated
    /\ DimensionsMatch
    /\ sheets[1].max_row >= 2
    /\ verror = NoError
    /\ exc = ""

\* the eleven checks in the order the contract fixes: table, kind, the
\* expected value and the actual value
CheckList ==
    << [kind |-> "columns", table |-> "Wages",  expected |-> 14, actual |-> sheets[1].max_column],
       [kind |-> "columns", table |-> "OB_EE",  expected |-> 1,  actual |-> sheets[2].max_column],
       [kind |-> "columns", table |-> "OB_ER",  expected |-> 1,  actual |-> sheets[3].max_column],
       [kind |-> "columns", table |-> "OB_EPS", expected |-> 1,  actual |-> sheets[4].max_column],
       [kind |-> "columns", table |-> "WDL_EE", expected |-> 12, actual |-> sheets[5].max_column],
       [kind |-> "columns", table |-> "WDL_ER", expected |-> 12, actual |-> sheets[6].max_column],
       [kind |-> "rows", table |-> "OB_EE",  expected |-> sheets[1].max_row, actual |-> sheets[2].max_row],
       [kind |-> "rows", table |-> "OB_ER",  expected |-> sheets[1].max_row, actual |-> sheets[3].max_row],
       [kind |-> "rows", table |-> "OB_EPS", expected |-> sheets[1].max_row, actual |-> sheets[4].max_row],
       [kind |-> "rows", table |-> "WDL_EE", expected |-> sheets[1].max_row, actual |-> sheets[5].max_row],
       [kind |-> "rows", table |-> "WDL_ER", expected |-> sheets[1].max_row, actual |-> sheets[6].max_row] >>

FailingChecks == {i \in 1..Len(CheckList) : CheckList[i].expected # CheckList[i].actual}

FirstFailingCheck == CHOOSE i \in FailingChecks : \A j \in FailingChecks : i <= j

\* C2: when several checks fail at once, the failure raised is that of the
\* first failing check in the fixed order (six column checks, then five
\* row-count checks against Wages) and carries that table's name with the
\* expected and the actual value (for rows: Wages' count and the table's).
C2_FirstFailingCheckReported ==
    (Validated /\ FailingChecks # {}) =>
        /\ verror = CheckList[FirstFailingCheck]
        /\ exc = "DataValidationError"
        /\ result = "ERROR"

C2_Witness ==
    /\ Validated
    /\ Cardinality(FailingChecks) >= 2
    /\ verror.kind = "rows"
    /\ verror = CheckList[FirstFailingCheck]
    /\ verror.expected = sheets[1].max_row
    /\ verror.actual = sheets[1].max_row - 1

\* some step after validation has left a trace
ComputationStarted ==
    \/ data # <<>>
    \/ rate_reads > 0
    \/ rate # NoRate
    \/ output_rows # 0
    \/ csv_file # "untouched"
    \/ xlsx_file # "untouched"

\* C3: no cell data is extracted, the rate is not read, nothing is computed
\* and no output file is written unless validate_sheet_dimensions has first
\* accepted all six sheets; a run whose sheets fail validation (e.g. Wages
\* with 13 columns) ends with ERROR and none of these has happened.
C3_ValidationBeforeComputation ==
    /\ ComputationStarted =>
          /\ Len(sheets) = 6
          /\ DimensionsMatch
          /\ verror = NoError
    /\ (Len(sheets) = 6 /\ ~DimensionsMatch /\ pc = "done") =>
          /\ result = "ERROR"
          /\ ~ComputationStarted

C3_Witness ==
    /\ pc = "done"
    /\ Len(sheets) = 6
    /\ sheets[1].max_column = 13
    /\ result = "ERROR"
    /\ exc = "DataValidationError"
    /\ ~ComputationStarted

\* C4: a run that does not end with SUCCESS has written or overwritten
\* neither output.csv nor Output.xlsx.
C4_AllOrNothing ==
    (pc = "done" /\ result # "SUCCESS") =>
        /\ csv_file = "untouched"
        /\ xlsx_file = "untouched"

\* the stages of a successful run, in order
FullOrder ==
    <<"load", "sheet", "sheet", "sheet", "sheet", "sheet", "sheet",
      "validate", "fetch", "rate", "compute", "csv", "xlsx">>

\* C5: a finished run has exactly one of the outcomes CLOSE, SUCCESS, ERROR;
\* CLOSE exactly when the prompt was answered n or N, and then nothing was
\* loaded, validated, computed or written; SUCCESS only after load, six
\* sheet lookups, validation, extraction, one rate read, computation and
\* both writes in that order; every exception raised on the way gives ERROR.
C5_Outcomes ==
    /\ result \in {"NONE", "CLOSE", "SUCCESS", "ERROR"}
    /\ (pc = "done") <=> (result # "NONE")
    /\ (result = "CLOSE") <=> (response \in {"n", "N"})
    /\ result = "CLOSE" =>
          /\ log = <<>>
          /\ sheets = <<>>
          /\ ~ComputationStarted
    /\ result = "SUCCESS" =>
          /\ log = FullOrder
          /\ rate_reads = 1
          /\ csv_file = "complete"
          /\ xlsx_file = "complete"
    /\ (exc # "") <=> (result = "ERROR")

C5_Witness ==
    /\ pc = "done"
    /\ result = "SUCCESS"
    /\ response \in {"y", "Y"}
    /\ log = FullOrder

(***************************************************************************)
(* Python float arithmetic.                                                *)
(*                                                                         *)
(* A float is an IEEE-754 double.  A non-negative double is written here   *)
(* as significand * 2^(-exp); the significand is a natural number held    *)
(* as a sequence of bits, least significant first (53 bits and more do     *)
(* not fit a 32-bit integer), or, for the rate literals, as base-1024      *)
(* limbs, least significant first.                                         *)
(***************************************************************************)
\* 0.12   = 0x1.eb851eb851eb8p-4 = 0x1EB851EB851EB8 * 2^-56
EMPLOYEE_CONTRIBUTION_RATE == [limbs |-> <<696, 327, 696, 327, 696, 7>>, exp |-> 56]
\* 0.0833 = 0x1.5532617c1bda5p-4 = 0x15532617C1BDA5 * 2^-56
EPS_CONTRIBUTION_RATE == [limbs |-> <<421, 111, 380, 152, 339, 5>>, exp |-> 56]
\* 0.0367 = 0x1.2ca57a786c227p-5 = 0x12CA57A786C227 * 2^-57
EMPLOYER_CONTRIBUTION_RATE == [limbs |-> <<551, 432, 632, 350, 714, 4>>, exp |-> 57]

\* limbs * w + carry, exactly, as base-1024 limbs
RECURSIVE MulLimbs(_, _, _)
MulLimbs(limbs, w, carry) ==
    IF limbs = <<>>
      THEN IF carry = 0 THEN <<>>
           ELSE <<carry % 1024>> \o MulLimbs(<<>>, w, carry \div 1024)
      ELSE LET t == Head(limbs) * w + carry IN
           <<t % 1024>> \o MulLimbs(Tail(limbs), w, t \div 1024)

LimbToBits(limb) == [j \in 1..10 |-> (limb \div 2^(j - 1)) % 2]

RECURSIVE ToBits(_)
ToBits(limbs) ==
    IF limbs = <<>> THEN <<>> ELSE LimbToBits(Head(limbs)) \o ToBits(Tail(limbs))

RECURSIVE BitsToNat(_)
BitsToNat(bits) ==
    IF bits = <<>> THEN 0 ELSE Head(bits) + 2 * BitsToNat(Tail(bits))

\* position of the highest set bit, 0 for zero
BitLength(bits) ==
    IF \A i \in 1..Len(bits) : bits[i] = 0 THEN 0
    ELSE CHOOSE i \in 1..Len(bits) :
             bits[i] = 1 /\ \A j \in (i + 1)..Len(bits) : bits[j] = 0

Zeros(n) == [i \in 1..n |-> 0]

RECURSIVE Increment(_)
Increment(bits) ==
    IF bits = <<>> THEN <<1>>
    ELSE IF Head(bits) = 0 THEN <<1>> \o Tail(bits)
    ELSE <<0>> \o Increment(Tail(bits))

\* bits / 2^k rounded to the nearest natural number, ties to even
RoundShift(bits, k) ==
    IF k = 0 THEN bits
    ELSE IF k > Len(bits) THEN <<>>
    ELSE LET q == SubSeq(bits, k + 1, Len(bits))
             guard == bits[k] = 1
             sticky == \E j \in 1..(k - 1) : bits[j] = 1
             odd == q # <<>> /\ Head(q) = 1
         IN IF guard /\ (sticky \/ odd) THEN Increment(q) ELSE q

\* wage * c for an integer wage (exact as a double) and a rate literal c:
\* the exact product rounded to 53 significant bits, ties to even
FloatMul(wage, c) ==
    LET product == ToBits(MulLimbs(c.limbs, wage, 0))
        length == BitLength(product)
        drop == IF length > 53 THEN length - 53 ELSE 0
    IN [bits |-> Zeros(drop) \o RoundShift(product, drop), exp |-> c.exp]

\* round(x) of a float x: the nearest integer, ties to even
PyRound(x) == BitsToNat(RoundShift(x.bits, x.exp))

(***************************************************************************)
(* calculate_contributions                                                 *)
(***************************************************************************)
calculate_contributions_EmployerAtEpsRate(wage) ==
    LET employee == PyRound(FloatMul(wage, EMPLOYEE_CONTRIBUTION_RATE))
        eps == PyRound(FloatMul(wage, EPS_CONTRIBUTION_RATE))
        employer == PyRound(FloatMul(wage, EPS_CONTRIBUTION_RATE))
    IN <<employee, employer, eps>>

calculate_contributions(wage) ==
    LET employee == PyRound(FloatMul(wage, EMPLOYEE_CONTRIBUTION_RATE))
        eps == PyRound(FloatMul(wage, EPS_CONTRIBUTION_RATE))
        employer == PyRound(FloatMul(wage, EMPLOYER_CONTRIBUTION_RATE))
    IN <<employee, employer, eps>>

\* wages 0..MaxWage
MaxWage == 60
\* wages 5000 * k for k in 0..MaxStep
MaxStep == 8

WageInputs ==
    (0..MaxWage) \cup {5000 * k : k \in 0..MaxStep} \cup {10000, 10001}

MainIdle ==
    /\ pc = "idle"
    /\ response = ""
    /\ sheets = <<>>
    /\ verror = NoError
    /\ exc = ""
    /\ diag = ""
    /\ data = <<>>
    /\ rate = NoRate
    /\ rate_reads = 0
    /\ output_rows = 0
    /\ csv_file = "untouched"
    /\ xlsx_file = "untouched"
    /\ result = "NONE"
    /\ log = <<>>

InitContrib ==
    /\ MainIdle
    /\ call = "calculate_contributions"
    /\ args \in [wage : WageInputs]
    /\ ret = NoRet

CallContributions ==
    /\ call = "calculate_contributions"
    /\ ret = NoRet
    /\ ret' = calculate_contributions(args.wage)
    /\ UNCHANGED <<call, args>>
    /\ UNCHANGED mainVars

NextContrib == CallContributions

SpecContrib == InitContrib /\ [][NextContrib]_vars

ContributionsReturned == call = "calculate_contributions" /\ ret # NoRet

\* C6: each of the three amounts is its own rate * wage product rounded
\* half-up: employee = floor((1200 * wage + 5000) / 10000), employer =
\* floor((367 * wage + 5000) / 10000), pension = floor((833 * wage + 5000) / 10000).
C6_RoundHalfUp ==
    ContributionsReturned =>
        ret = << (1200 * args.wage + 5000) \div 10000,
                 (367 * args.wage + 5000) \div 10000,
                 (833 * args.wage + 5000) \div 10000 >>

RECURSIVE Sum(_)
Sum(seq) == IF seq = <<>> THEN 0 ELSE Head(seq) + Sum(Tail(seq))

\* round(n / d) for the float n / d with d > 0: nearest integer, ties to even
PyRoundDiv(n, d) ==
    LET q == n \div d
        r == n % d
    IN IF 2 * r < d THEN q
       ELSE IF 2 * r > d THEN q + 1
       ELSE IF q % 2 = 0 THEN q ELSE q + 1

LoopRange_WholeSeries(ee_contributions) == Len(ee_contributions)

\* range(len(ee_contributions) - 1)
LoopRange(ee_contributions) == Len(ee_contributions) - 1

\* the for loop, for one share: balances grows by one entry per iteration
RECURSIVE AppendBalances(_, _, _, _, _)
AppendBalances(balances, contributions, withdrawals, i, n) ==
    IF i > n THEN balances
    ELSE AppendBalances(
             Append(balances,
                    balances[Len(balances)] + contributions[i] - withdrawals[i]),
             contributions, withdrawals, i + 1, n)

InterestOf_WithdrawalsNotNetted(sum_balances, total_withdrawals, annual_rate) ==
    PyRoundDiv(sum_balances * annual_rate, 4 * INTEREST_DIVISOR)

\* round(((sum_balances - total_withdrawals) * rate) / INTEREST_DIVISOR),
\* the rate in quarter points
InterestOf(sum_balances, total_withdrawals, annual_rate) ==
    PyRoundDiv((sum_balances - total_withdrawals) * annual_rate, 4 * INTEREST_DIVISOR)

calculate_monthly_balances(ob_ee, ob_er, ee_contributions, er_contributions, ee_withdrawals, er_withdrawals, annual_rate) ==
    LET n == LoopRange(ee_contributions)
        ee_balances == AppendBalances(<<ob_ee>>, ee_contributions, ee_withdrawals, 1, n)
        er_balances == AppendBalances(<<ob_er>>, er_contributions, er_withdrawals, 1, n)
        sum_ee_balances == Sum(ee_balances)
        sum_er_balances == Sum(er_balances)
        total_ee_withdrawals == Sum(ee_withdrawals)
        total_er_withdrawals == Sum(er_withdrawals)
        ee_interest == InterestOf(sum_ee_balances, total_ee_withdrawals, annual_rate)
        er_interest == InterestOf(sum_er_balances, total_er_withdrawals, annual_rate)
    IN <<ee_balances, er_balances, ee_interest, er_interest>>

\* longest series drawn month by month
MaxMonths == 3

\* one month of a series: both contributions and both withdrawals
MonthEntries ==
    { [ee_c |-> 1000, er_c |-> 300, ee_w |-> 0,   er_w |-> 0],
      [ee_c |-> 1000, er_c |-> 300, ee_w |-> 500, er_w |-> 150],
      [ee_c |-> 1200, er_c |-> 367, ee_w |-> 0,   er_w |-> 100],
      [ee_c |-> 0,    er_c |-> 0,   ee_w |-> 0,   er_w |-> 0] }

\* opening balances of the employee and the employer share
OpeningBalances == { <<10000, 3000>>, <<12000, 3600>>, <<0, 0>> }

\* series of 1..MaxMonths months, and the full year of twelve equal months
SeriesInputs ==
    UNION { [1..n -> MonthEntries] : n \in 1..MaxMonths }
      \cup { [i \in 1..EXPECTED_WDL_COLUMNS |-> m] : m \in MonthEntries }

BalanceArgs(ob, months, q) ==
    [ob_ee |-> ob[1], ob_er |-> ob[2],
     ee_contributions |-> [i \in 1..Len(months) |-> months[i].ee_c],
     er_contributions |-> [i \in 1..Len(months) |-> months[i].er_c],
     ee_withdrawals |-> [i \in 1..Len(months) |-> months[i].ee_w],
     er_withdrawals |-> [i \in 1..Len(months) |-> months[i].er_w],
     rate |-> q]

InitBalances ==
    /\ MainIdle
    /\ call = "calculate_monthly_balances"
    /\ \E ob \in OpeningBalances, months \in SeriesInputs, q \in RateQuarters :
           args = BalanceArgs(ob, months, q)
    /\ ret = NoRet

CallMonthlyBalances ==
    /\ call = "calculate_monthly_balances"
    /\ ret = NoRet
    /\ ret' = calculate_monthly_balances(
                  args.ob_ee, args.ob_er, args.ee_contributions,
                  args.er_contributions, args.ee_withdrawals,
                  args.er_withdrawals, args.rate)
    /\ UNCHANGED <<call, args>>
    /\ UNCHANGED mainVars

NextBalances == CallMonthlyBalances

SpecBalances == InitBalances /\ [][NextBalances]_vars

BalancesReturned == call = "calculate_monthly_balances" /\ ret # NoRet

\* the recurrence of the claim, for one share
IsBalanceSeries(balances, ob, contributions, withdrawals) ==
    /\ Len(balances) = Len(contributions)
    /\ balances[1] = ob
    /\ \A i \in 2..Len(contributions) :
           balances[i] = balances[i - 1] + contributions[i - 1] - withdrawals[i - 1]

IsRounded(i, n, d) ==
    LET diff == d * i - n IN
    /\ 2 * diff <= d
    /\ 2 * diff >= -d
    /\ (2 * diff = d \/ 2 * diff = -d) => i % 2 = 0

C10_InterestOnAverageBalance ==
    (/\ BalancesReturned
     /\ Len(args.ee_contributions) = 1
     /\ args.ee_withdrawals = <<0>>
     /\ args.er_withdrawals = <<0>>) =>
        /\ IsRounded(ret[3], (2 * args.ob_ee + args.ee_contributions[1]) * args.rate, 9600)
        /\ (/\ args.ob_ee = 12000 /\ args.ee_contributions = <<1000>>
            /\ args.ob_er = 3600 /\ args.er_contributions = <<300>>
            /\ args.rate = 34) => (ret[3] = 89 /\ ret[4] = 26)

(***************************************************************************)
(* calculate_monthly_balances applied to two series that agree on the      *)
(* opening balances, on the rate and on every month but the last.          *)
(***************************************************************************)
\* months with its last month replaced by m
WithLastMonth(months, m) ==
    [i \in 1..Len(months) |-> IF i = Len(months) THEN m ELSE months[i]]

InitBalancesPair ==
    /\ MainIdle
    /\ call = "calculate_monthly_balances twice"
    /\ \E ob \in OpeningBalances, months \in SeriesInputs,
          m \in MonthEntries, q \in RateQuarters :
           args = [first |-> BalanceArgs(ob, months, q),
                   second |-> BalanceArgs(ob, WithLastMonth(months, m), q)]
    /\ ret = NoRet

CallMonthlyBalancesTwice ==
    /\ call = "calculate_monthly_balances twice"
    /\ ret = NoRet
    /\ ret' = << calculate_monthly_balances(
                    args.first.ob_ee, args.first.ob_er, args.first.ee_contributions,
                    args.first.er_contributions, args.first.ee_withdrawals,
                    args.first.er_withdrawals, args.first.rate),
                 calculate_monthly_balances(
                    args.second.ob_ee, args.second.ob_er, args.second.ee_contributions,
                    args.second.er_contributions, args.second.ee_withdrawals,
                    args.second.er_withdrawals, args.second.rate) >>
    /\ UNCHANGED <<call, args>>
    /\ UNCHANGED mainVars

NextBalancesPair == CallMonthlyBalancesTwice

SpecBalancesPair == InitBalancesPair /\ [][NextBalancesPair]_vars

BalancesPairReturned == call = "calculate_monthly_balances twice" /\ ret # NoRet

Last(seq) == seq[Len(seq)]

\* C11 as claimed: two inputs that differ only in the last (twelfth)
\* month's contribution and/or withdrawal return the same balance series
\* and the same interest.
C11_LastMonthAffectsNothing ==
    BalancesPairReturned => ret[1] = ret[2]

\* C11 as amended: two such inputs return the same two balance series; a
\* share's interest is the same whenever the two inputs agree on that
\* share's last-month withdrawal (the last month's contribution never
\* matters, its withdrawal enters the interest through sum(withdrawals)).
C11_LastMonthOnlyThroughWithdrawal ==
    BalancesPairReturned =>
        /\ ret[1][1] = ret[2][1]
        /\ ret[1][2] = ret[2][2]
        /\ Last(args.first.ee_withdrawals) = Last(args.second.ee_withdrawals)
              => ret[1][3] = ret[2][3]
        /\ Last(args.first.er_withdrawals) = Last(args.second.er_withdrawals)
              => ret[1][4] = ret[2][4]

C11_Witness ==
    /\ BalancesPairReturned
    /\ Len(args.first.ee_contributions) = 12
    /\ args.first.rate = 34
    /\ Last(args.first.ee_contributions) # Last(args.second.ee_contributions)
    /\ Last(args.first.er_withdrawals) # Last(args.second.er_withdrawals)
    /\ Last(args.first.ee_withdrawals) = Last(args.second.ee_withdrawals)
    /\ ret[1][1] = ret[2][1]
    /\ ret[1][3] = ret[2][3]
    /\ ret[1][4] # ret[2][4]

(***************************************************************************)
(* generate_output_rows                                                    *)
(*                                                                         *)
(* Cells hold integers (what fetch_sheet_data returns for numeric and      *)
(* empty cells), so int(x) leaves them as they are.  str(n) is the         *)
(* decimal text of n, held as a sequence of one-character strings.         *)
(***************************************************************************)
Digit == <<"0", "1", "2", "3", "4", "5", "6", "7", "8", "9">>

RECURSIVE NatStr(_)
NatStr(n) ==
    IF n < 10 THEN <<Digit[n + 1]>>
    ELSE NatStr(n \div 10) \o <<Digit[(n % 10) + 1]>>

\* str(n) of an int
Str(n) == IF n < 0 THEN <<"-">> \o NatStr(-n) ELSE NatStr(n)

\* int(x) of an integer cell
IntOf(x) == x

NoWithdrawals == <<0, 0, 0, 0, 0, 0, 0, 0, 0, 0, 0, 0>>

\* one employee's rows in the six tables
EmployeeInputs ==
    { [wage_row |-> <<"E001", "Asha", 1000, 1000, 1000, 1000, 1000, 1000,
                      1000, 1000, 1000, 1000, 1000, 1000>>,
       ob_ee |-> 0, ob_er |-> 0, ob_eps |-> 0,
       wdl_ee |-> NoWithdrawals, wdl_er |-> NoWithdrawals],
      [wage_row |-> <<"E002", "Ravi", 10000, 10001, 5000, 15000, 5, 0,
                      25000, 60, 1000, 1000, 1000, 1000>>,
       ob_ee |-> 10000, ob_er |-> 3000, ob_eps |-> 2000,
       wdl_ee |-> <<500, 0, 0, 0, 0, 0, 0, 0, 0, 0, 0, 250>>,
       wdl_er |-> <<150, 0, 0, 0, 0, 0, 0, 0, 0, 0, 0, 0>>],
      [wage_row |-> <<"E003", "Mina", 0, 0, 0, 0, 0, 0, 0, 0, 0, 0, 0, 0>>,
       ob_ee |-> 0, ob_er |-> 0, ob_eps |-> 0,
       wdl_ee |-> <<500, 0, 0, 0, 0, 0, 0, 0, 0, 0, 0, 0>>,
       wdl_er |-> NoWithdrawals] }

\* the wages that occur in the wage table
CellWages ==
    UNION { {e.wage_row[k] : k \in 3..Len(e.wage_row)} : e \in EmployeeInputs }

\* calculate_contributions(wage), evaluated once per wage of the wage table
ContributionsOf == [wage \in CellWages |-> calculate_contributions(wage)]

HeaderRow ==
    <<"A/C No.", "NAME", "OB(EE)", "OB(ER)", "INT(EE)", "INT(ER)",
      "CONT(EE)", "CONT(ER)", "WDL(EE)", "WDL(ER)", "CB(EE)", "CB(ER)",
      "OB(EPS)", "CONT(EPS)", "CB(EPS)">>

ClosingBalance_WithdrawalsNotDeducted(ob, interest, total_contrib, total_wdl) ==
    ob + interest + total_contrib

\* cb_ee, cb_er: opening balance + interest + contributions - withdrawals
ClosingBalance(ob, interest, total_contrib, total_wdl) ==
    ob + interest + total_contrib - total_wdl

\* the body of the for loop: the row appended for one employee
OutputRow(wage_row, ob_ee_cell, ob_er_cell, ob_eps_cell, wdl_ee_row, wdl_er_row, annual_rate) ==
    LET account_no == wage_row[1]
        name == wage_row[2]
        monthly_wages == SubSeq(wage_row, 3, 2 + EXPECTED_WDL_COLUMNS)
        contribs == [k \in 1..Len(monthly_wages) |->
                        ContributionsOf[monthly_wages[k]]]
        ee_contribs == [k \in 1..Len(monthly_wages) |-> contribs[k][1]]
        er_contribs == [k \in 1..Len(monthly_wages) |-> contribs[k][2]]
        eps_contribs == [k \in 1..Len(monthly_wages) |-> contribs[k][3]]
        ob_ee == IntOf(ob_ee_cell)
        ob_er == IntOf(ob_er_cell)
        ob_eps == IntOf(ob_eps_cell)
        ee_withdrawals == [k \in 1..Len(wdl_ee_row) |-> IntOf(wdl_ee_row[k])]
        er_withdrawals == [k \in 1..Len(wdl_er_row) |-> IntOf(wdl_er_row[k])]
        balances == calculate_monthly_balances(ob_ee, ob_er, ee_contribs, er_contribs,
                                               ee_withdrawals, er_withdrawals, annual_rate)
        ee_interest == balances[3]
        er_interest == balances[4]
        total_ee_contrib == Sum(ee_contribs)
        total_er_contrib == Sum(er_contribs)
        total_ee_wdl == Sum(ee_withdrawals)
        total_er_wdl == Sum(er_withdrawals)
        total_eps == Sum(eps_contribs)
        cb_ee == ClosingBalance(ob_ee, ee_interest, total_ee_contrib, total_ee_wdl)
        cb_er == ClosingBalance(ob_er, er_interest, total_er_contrib, total_er_wdl)
        cb_eps == ob_eps + total_eps
    IN <<account_no, name, Str(ob_ee), Str(ob_er), Str(ee_interest), Str(er_interest),
         Str(total_ee_contrib), Str(total_er_contrib), Str(total_ee_wdl),
         Str(total_er_wdl), Str(cb_ee), Str(cb_er), Str(ob_eps), Str(total_eps),
         Str(cb_eps)>>

generate_output_rows_JoinOnFirstRow(wage_sheet_data, ob_ee_data, ob_er_data, ob_eps_data, wdl_ee_data, wdl_er_data, annual_rate) ==
    <<HeaderRow>> \o
    [i \in 1..Len(wage_sheet_data) |->
        OutputRow(wage_sheet_data[i], ob_ee_data[1], ob_er_data[1], ob_eps_data[1],
                  wdl_ee_data[1], wdl_er_data[1], annual_rate)]

generate_output_rows_PensionBalanceCarried(wage_sheet_data, ob_ee_data, ob_er_data, ob_eps_data, wdl_ee_data, wdl_er_data, annual_rate) ==
    <<HeaderRow>> \o
    [i \in 1..Len(wage_sheet_data) |->
        OutputRow(wage_sheet_data[i], ob_ee_data[i], ob_er_data[i],
                  Sum(SubSeq(ob_eps_data, 1, i)),
                  wdl_ee_data[i], wdl_er_data[i], annual_rate)]

\* the header row, then one row per wage row, joined by position
generate_output_rows(wage_sheet_data, ob_ee_data, ob_er_data, ob_eps_data, wdl_ee_data, wdl_er_data, annual_rate) ==
    <<HeaderRow>> \o
    [i \in 1..Len(wage_sheet_data) |->
        OutputRow(wage_sheet_data[i], ob_ee_data[i], ob_er_data[i], ob_eps_data[i],
                  wdl_ee_data[i], wdl_er_data[i], annual_rate)]

\* largest number of employees in the tables
MaxEmployees == 2

\* tables of 0..MaxEmployees employees
EmployeeSeqs == UNION { [1..n -> EmployeeInputs] : n \in 0..MaxEmployees }

\* the six fetched tables of a sequence of employees, and the rate
RowArgs(employees, q) ==
    [wage_sheet_data |-> [i \in 1..Len(employees) |-> employees[i].wage_row],
     ob_ee_data |-> [i \in 1..Len(employees) |-> employees[i].ob_ee],
     ob_er_data |-> [i \in 1..Len(employees) |-> employees[i].ob_er],
     ob_eps_data |-> [i \in 1..Len(employees) |-> employees[i].ob_eps],
     wdl_ee_data |-> [i \in 1..Len(employees) |-> employees[i].wdl_ee],
     wdl_er_data |-> [i \in 1..Len(employees) |-> employees[i].wdl_er],
     rate |-> q]

RowsOf(a) ==
    generate_output_rows(a.wage_sheet_data, a.ob_ee_data, a.ob_er_data,
                         a.ob_eps_data, a.wdl_ee_data, a.wdl_er_data, a.rate)

InitRows ==
    /\ MainIdle
    /\ call = "generate_output_rows"
    /\ \E employees \in EmployeeSeqs, q \in RateQuarters :
           args = RowArgs(employees, q)
    /\ ret = NoRet

CallGenerateOutputRows ==
    /\ call = "generate_output_rows"
    /\ ret = NoRet
    /\ ret' = RowsOf(args)
    /\ UNCHANGED <<call, args>>
    /\ UNCHANGED mainVars

NextRows == CallGenerateOutputRows

SpecRows == InitRows /\ [][NextRows]_vars

RowsReturned == call = "generate_output_rows" /\ ret # NoRet

\* the number a decimal text denotes
DigitValue(ch) == CHOOSE d \in 0..9 : Digit[d + 1] = ch

RECURSIVE DecimalValue(_)
DecimalValue(text) ==
    IF text = <<>> THEN 0
    ELSE 10 * DecimalValue(SubSeq(text, 1, Len(text) - 1)) + DigitValue(text[Len(text)])

NumberOf(text) ==
    IF Head(text) = "-" THEN - DecimalValue(Tail(text)) ELSE DecimalValue(text)

\* text is a decimal numeral: digits, after an optional minus sign
IsDecimalText(text) ==
    LET digits == IF text # <<>> /\ Head(text) = "-" THEN Tail(text) ELSE text IN
    /\ digits # <<>>
    /\ \A k \in 1..Len(digits) : \E d \in 0..9 : Digit[d + 1] = digits[k]

\* the employees of the input, and the twelve monthly contributions of the
\* i-th, each as calculate_contributions returns it
Employees == 1..Len(args.wage_sheet_data)

MonthlyContributions(i, share) ==
    [k \in 1..12 |-> calculate_contributions(args.wage_sheet_data[i][k + 2])[share]]

\* C12: in every data row CONT(EE), CONT(ER), CONT(EPS) are the sums of the
\* employee's twelve monthly contributions, WDL(EE), WDL(ER) the sums of the
\* twelve withdrawals, CB(EE) = OB(EE) + INT(EE) + CONT(EE) - WDL(EE),
\* CB(ER) likewise, and CB(EPS) = OB(EPS) + CONT(EPS).
C12_TotalsAndClosingBalances ==
    RowsReturned =>
        \A i \in Employees :
            LET row == ret[i + 1] IN
            /\ NumberOf(row[7]) = Sum(MonthlyContributions(i, 1))
            /\ NumberOf(row[8]) = Sum(MonthlyContributions(i, 2))
            /\ NumberOf(row[14]) = Sum(MonthlyContributions(i, 3))
            /\ NumberOf(row[9]) = Sum(args.wdl_ee_data[i])
            /\ NumberOf(row[10]) = Sum(args.wdl_er_data[i])
            /\ NumberOf(row[11]) = NumberOf(row[3]) + NumberOf(row[5])
                                     + NumberOf(row[7]) - NumberOf(row[9])
            /\ NumberOf(row[12]) = NumberOf(row[4]) + NumberOf(row[6])
                                     + NumberOf(row[8]) - NumberOf(row[10])
            /\ NumberOf(row[15]) = NumberOf(row[13]) + NumberOf(row[14])

\* one employee with wage 1000 in all twelve months, zero opening balances
\* and withdrawals, rate 12
C12_Witness ==
    /\ RowsReturned
    /\ Len(args.wage_sheet_data) = 1
    /\ \A k \in 3..14 : args.wage_sheet_data[1][k] = 1000
    /\ args.rate = 48
    /\ ret[2][7] = <<"1", "4", "4", "0">>
    /\ ret[2][13] = <<"0">>
    /\ ret[2][15] = ret[2][14]

\* C13: N employees give N + 1 rows: the fixed header, then one row per
\* employee in the order of the wage table; every row has 15 fields in the
\* header's order; identifier and name are those of the i-th wage row and
\* the other fields come from the i-th entry of every other table.
C13_RowsAndPositionalJoin ==
    RowsReturned =>
        /\ Len(ret) = Len(args.wage_sheet_data) + 1
        /\ ret[1] = <<"A/C No.", "NAME", "OB(EE)", "OB(ER)", "INT(EE)", "INT(ER)",
                      "CONT(EE)", "CONT(ER)", "WDL(EE)", "WDL(ER)", "CB(EE)",
                      "CB(ER)", "OB(EPS)", "CONT(EPS)", "CB(EPS)">>
        /\ \A r \in 1..Len(ret) : Len(ret[r]) = 15
        /\ \A i \in Employees :
            LET row == ret[i + 1] IN
            /\ row[1] = args.wage_sheet_data[i][1]
            /\ row[2] = args.wage_sheet_data[i][2]
            /\ \A k \in 3..15 : IsDecimalText(row[k])
            /\ NumberOf(row[3]) = args.ob_ee_data[i]
            /\ NumberOf(row[4]) = args.ob_er_data[i]
            /\ NumberOf(row[13]) = args.ob_eps_data[i]
            /\ NumberOf(row[9]) = Sum(args.wdl_ee_data[i])
            /\ NumberOf(row[10]) = Sum(args.wdl_er_data[i])
            /\ NumberOf(row[7]) = Sum(MonthlyContributions(i, 1))

C13_Witness ==
    /\ RowsReturned
    /\ Len(args.wage_sheet_data) = 2
    /\ args.wage_sheet_data[1][1] = "E003"
    /\ args.wage_sheet_data[2][1] = "E002"
    /\ Len(ret) = 3
    /\ ret[3][1] = "E002"
    /\ ret[3][3] = <<"1", "0", "0", "0", "0">>
    /\ ret[2][3] = <<"0">>

\* the balance series and interests of the i-th employee
BalancesOf(i) ==
    calculate_monthly_balances(
        args.ob_ee_data[i], args.ob_er_data[i],
        MonthlyContributions(i, 1), MonthlyContributions(i, 2),
        args.wdl_ee_data[i], args.wdl_er_data[i], args.rate)

\* C14: with non-negative wages, opening balances, withdrawals and rate,
\* every monthly contribution, every entry of both balance series, both
\* interests, the five totals and the three closing balances are >= 0.
C14_AmountsNonNegative ==
    RowsReturned =>
        \A i \in Employees :
            /\ \A k \in 1..12, share \in 1..3 : MonthlyContributions(i, share)[k] >= 0
            /\ \A k \in 1..Len(BalancesOf(i)[1]) : BalancesOf(i)[1][k] >= 0
            /\ \A k \in 1..Len(BalancesOf(i)[2]) : BalancesOf(i)[2][k] >= 0
            /\ \A k \in 3..15 : NumberOf(ret[i + 1][k]) >= 0

(***************************************************************************)
(* generate_output_rows applied to two inputs that have the same rate and  *)
(* agree on the employee at position i in all six tables.                  *)
(***************************************************************************)
InitRowsPair ==
    /\ MainIdle
    /\ call = "generate_output_rows twice"
    /\ \E a \in EmployeeSeqs, b \in EmployeeSeqs, q \in RateQuarters :
        \E i \in 1..Len(a) :
           /\ i <= Len(b)
           /\ a[i] = b[i]
           /\ args = [first |-> RowArgs(a, q), second |-> RowArgs(b, q), i |-> i]
    /\ ret = NoRet

CallGenerateOutputRowsTwice ==
    /\ call = "generate_output_rows twice"
    /\ ret = NoRet
    /\ ret' = <<RowsOf(args.first), RowsOf(args.second)>>
    /\ UNCHANGED <<call, args>>
    /\ UNCHANGED mainVars

NextRowsPair == CallGenerateOutputRowsTwice

SpecRowsPair == InitRowsPair /\ [][NextRowsPair]_vars

RowsPairReturned == call = "generate_output_rows twice" /\ ret # NoRet

\* C15: two inputs with the same rate that agree on employee i's row in all
\* six tables give the same data row i, whatever the other rows hold and
\* however many there are; identical inputs give identical output rows.
C15_RowsIndependent ==
    RowsPairReturned =>
        /\ ret[1][args.i + 1] = ret[2][args.i + 1]
        /\ args.first = args.second => ret[1] = ret[2]

C15_Witness ==
    /\ RowsPairReturned
    /\ args.i = 2
    /\ Len(args.second.wage_sheet_data) = 2
    /\ args.first.wage_sheet_data[1] # args.second.wage_sheet_data[1]
    /\ args.first.ob_eps_data[1] # args.second.ob_eps_data[1]
    /\ args.first.wage_sheet_data[2] = args.second.wage_sheet_data[2]
    /\ ret[1][3] = ret[2][3]
    /\ ret[1][2] # ret[2][2]

(***************************************************************************)
(* fetch_sheet_data                                                        *)
(*                                                                         *)
(* A worksheet is its max_row, its max_column and the value of each cell;  *)
(* a value is None, an int or a str.                                       *)
(***************************************************************************)
None == [t |-> "None", n |-> 0, s |-> ""]
IntValue(n) == [t |-> "int", n |-> n, s |-> ""]
StrValue(s) == [t |-> "str", n |-> 0, s |-> s]

\* 0 if value is None else value
ZeroIfNone(value) == IF value = None THEN IntValue(0) ELSE value

LastRow_ExcludesMaxRow(sheet) == sheet.max_row - 1

\* range(2, sheet.max_row + 1) ends with max_row
LastRow(sheet) == sheet.max_row

\* the for loop over the rows, from row on
RECURSIVE FetchRows(_, _, _, _)
FetchRows(sheet, data_type, row, records) ==
    IF row > LastRow(sheet) THEN records
    ELSE FetchRows(sheet, data_type, row + 1,
             Append(records,
                    IF data_type = "single"
                      THEN ZeroIfNone(sheet.cells[row][1])
                      ELSE [column \in 1..sheet.max_column |->
                               ZeroIfNone(sheet.cells[row][column])]))

fetch_sheet_data(sheet, data_type) == FetchRows(sheet, data_type, 2, <<>>)

\* largest max_row of a fetched sheet
MaxSheetRows == 3
\* largest max_column of a fetched sheet
MaxSheetColumns == 2

CellValues == {None, IntValue(7), StrValue("x")}

\* a sheet of max_row r and max_column c: a header row, then the rows of body
Sheet(r, c, body) ==
    [max_row |-> r, max_column |-> c,
     cells |-> [i \in 1..r |->
                  IF i = 1 THEN [j \in 1..c |-> StrValue("header")]
                  ELSE body[i - 1]]]

InitFetch ==
    /\ MainIdle
    /\ call = "fetch_sheet_data"
    /\ \E r \in 1..MaxSheetRows, c \in 1..MaxSheetColumns :
         \E body \in [1..(r - 1) -> [1..c -> CellValues]], data_type \in {"single", "multi"} :
             args = [sheet |-> Sheet(r, c, body), data_type |-> data_type]
    /\ ret = NoRet

\* the call returns; an empty list is a return value too
CallFetchSheetData ==
    /\ call = "fetch_sheet_data"
    /\ call' = "fetch_sheet_data returned"
    /\ ret' = fetch_sheet_data(args.sheet, args.data_type)
    /\ UNCHANGED args
    /\ UNCHANGED mainVars

NextFetch == CallFetchSheetData

SpecFetch == InitFetch /\ [][NextFetch]_vars

FetchReturned == call = "fetch_sheet_data returned"

\* C16: fetch_sheet_data returns max_row - 1 records, those of rows
\* 2..max_row in order; a None cell becomes 0 and any other cell is
\* returned as it is; in 'single' mode a record is the value of column 1,
\* in 'multi' mode it has max_column entries.
C16_FetchedRecords ==
    FetchReturned =>
        /\ Len(ret) = args.sheet.max_row - 1
        /\ \A k \in 1..Len(ret) :
            LET cell(c) == args.sheet.cells[k + 1][c]
                expected(c) == IF cell(c).t = "None" THEN IntValue(0) ELSE cell(c)
            IN IF args.data_type = "single"
                 THEN ret[k] = expected(1)
                 ELSE /\ Len(ret[k]) = args.sheet.max_column
                      /\ \A c \in 1..args.sheet.max_column : ret[k][c] = expected(c)

C16_Witness ==
    /\ FetchReturned
    /\ args.data_type = "multi"
    /\ args.sheet.max_row = 3
    /\ args.sheet.max_column = 2
    /\ args.sheet.cells[2] = <<StrValue("x"), None>>
    /\ args.sheet.cells[3] = <<None, IntValue(7)>>
    /\ ret = << <<StrValue("x"), IntValue(0)>>, <<IntValue(0), IntValue(7)>> >>

(***************************************************************************)
(* calculate_contributions on wages beyond 32 bits                         *)
(*                                                                         *)
(* A Python int of any size is held as base-1024 limbs, least significant  *)
(* first, and the three returned ints as bit sequences without leading     *)
(* zeros.  wage * RATE converts the int to a double first.                 *)
(***************************************************************************)
RECURSIVE LimbsOf(_)
LimbsOf(n) == IF n = 0 THEN <<>> ELSE <<n % 1024>> \o LimbsOf(n \div 1024)

RECURSIVE BitsToLimbs(_)
BitsToLimbs(bits) ==
    IF bits = <<>> THEN <<>>
    ELSE LET n == IF Len(bits) < 10 THEN Len(bits) ELSE 10 IN
         <<BitsToNat(SubSeq(bits, 1, n))>> \o BitsToLimbs(SubSeq(bits, n + 1, Len(bits)))

\* a + b + carry, exactly, as base-1024 limbs
RECURSIVE AddLimbs(_, _, _)
AddLimbs(a, b, carry) ==
    IF a = <<>> /\ b = <<>>
      THEN IF carry = 0 THEN <<>> ELSE <<carry>>
      ELSE LET x == IF a = <<>> THEN 0 ELSE Head(a)
               y == IF b = <<>> THEN 0 ELSE Head(b)
               t == x + y + carry
           IN <<t % 1024>> \o AddLimbs(IF a = <<>> THEN a ELSE Tail(a),
                                       IF b = <<>> THEN b ELSE Tail(b),
                                       t \div 1024)

\* a * b, exactly, as base-1024 limbs
RECURSIVE MulLong(_, _)
MulLong(a, b) ==
    IF b = <<>> THEN <<>>
    ELSE AddLimbs(MulLimbs(a, Head(b), 0), <<0>> \o MulLong(a, Tail(b)), 0)

\* bits without leading zeros
Normal(bits) == SubSeq(bits, 1, BitLength(bits))

\* a natural number rounded to 53 significant bits, ties to even
RoundTo53(bits) ==
    LET length == BitLength(bits)
        drop == IF length > 53 THEN length - 53 ELSE 0
    IN Zeros(drop) \o RoundShift(bits, drop)

\* float(wage): the nearest double, ties to even
IntToFloat(wage) == [bits |-> RoundTo53(ToBits(wage)), exp |-> 0]

\* x * c for a double x and a rate literal c: the exact product rounded
\* to 53 significant bits, ties to even
FloatMulLong(x, c) ==
    [bits |-> RoundTo53(ToBits(MulLong(c.limbs, BitsToLimbs(Normal(x.bits))))),
     exp |-> x.exp + c.exp]

\* round(x) of a float x, as a Python int of any size
PyRoundLong(x) == Normal(RoundShift(x.bits, x.exp))

calculate_contributions_long_EmployerAtEmployeeRate(wage) ==
    LET employee == PyRoundLong(FloatMulLong(IntToFloat(wage), EMPLOYEE_CONTRIBUTION_RATE))
        eps == PyRoundLong(FloatMulLong(IntToFloat(wage), EPS_CONTRIBUTION_RATE))
        employer == PyRoundLong(FloatMulLong(IntToFloat(wage), EMPLOYEE_CONTRIBUTION_RATE))
    IN <<employee, employer, eps>>

calculate_contributions_long(wage) ==
    LET employee == PyRoundLong(FloatMulLong(IntToFloat(wage), EMPLOYEE_CONTRIBUTION_RATE))
        eps == PyRoundLong(FloatMulLong(IntToFloat(wage), EPS_CONTRIBUTION_RATE))
        employer == PyRoundLong(FloatMulLong(IntToFloat(wage), EMPLOYER_CONTRIBUTION_RATE))
    IN <<employee, employer, eps>>

\* 9 * 10^15, below 2^53
NineE15 == <<0, 672, 175, 463, 1017, 7>>
\* 3 * 10^16, above 2^54
ThreeE16 == <<0, 192, 244, 861, 660, 26>>

\* wages base + k for k in 0..MaxOffset
MaxOffset == 40

LongWageInputs ==
    {LimbsOf(wage) : wage \in WageInputs}
      \cup {MulLimbs(base, 1, k) : base \in {NineE15, ThreeE16}, k \in 0..MaxOffset}

InitContribLong ==
    /\ MainIdle
    /\ call = "calculate_contributions (long)"
    /\ args \in [wage : LongWageInputs]
    /\ ret = NoRet

CallContributionsLong ==
    /\ call = "calculate_contributions (long)"
    /\ ret = NoRet
    /\ ret' = calculate_contributions_long(args.wage)
    /\ UNCHANGED <<call, args>>
    /\ UNCHANGED mainVars

NextContribLong == CallContributionsLong

SpecContribLong == InitContribLong /\ [][NextContribLong]_vars

LongContributionsReturned == call = "calculate_contributions (long)" /\ ret # NoRet

\* |a - (b + c)| <= 1 for naturals given as bits without leading zeros
DifferByAtMostOne(a, b, c) ==
    LET sum == Normal(ToBits(AddLimbs(BitsToLimbs(b), BitsToLimbs(c), 0)))
    IN a = sum \/ Increment(a) = sum \/ Increment(sum) = a

\* C17 as claimed: for every integer wage >= 0 the employee contribution
\* and the sum of the employer and pension contributions differ by at
\* most 1.
C17_ResidueAtMostOne ==
    LongContributionsReturned => DifferByAtMostOne(ret[1], ret[2], ret[3])

\* C17 as amended: for every integer wage from 0 to below 2^53 the
\* employee contribution and the sum of the employer and pension
\* contributions differ by at most 1.
C17_ResidueAtMostOneBelow2Pow53 ==
    (LongContributionsReturned /\ BitLength(ToBits(args.wage)) <= 53) =>
        DifferByAtMostOne(ret[1], ret[2], ret[3])

\* wage 9000000000000006: 1080000000000001 against 330300000000000 + 749700000000000
C17_Witness ==
    /\ LongContributionsReturned
    /\ args.wage = MulLimbs(NineE15, 1, 6)
    /\ ret[1] = Increment(Normal(ToBits(AddLimbs(BitsToLimbs(ret[2]), BitsToLimbs(ret[3]), 0))))
    /\ ret[2] = Normal(ToBits(<<0, 726, 866, 415, 300>>))

====
